---- MODULE Spec2Model ----
(***************************************************************************)
(* adopy.base.Engine (src/adopy/base.py) as a state machine.               *)
(*                                                                         *)
(* Fixture: a Task with one design variable x, responses [0, 1], and a     *)
(* Model with one parameter p.  The design grid is x in {1, 2}.            *)
(*                                                                         *)
(* Number representation.  Probabilities are exact rationals <<n, d>>.     *)
(* A log-domain number is a record [e, q] that denotes  e*delta + ln(q),   *)
(* where q is a rational and delta > 0 is the value mvnm.pdf returns on    *)
(* the rows of a freshly generated grid (all rows of the grids used here   *)
(* lie at the same Mahalanobis distance from the mean, so the density is   *)
(* one number).  A parameter-grid row is a record [a, c, v] that denotes   *)
(* a + c*sqrt(v) with a, v rational and c an integer.  Entropies are       *)
(* fixed-point integers (unit 1/10000 nat).                                *)
(***************************************************************************)
EXTENDS Integers, Sequences, FiniteSets, TLC

VARIABLES
    func,                    \* Model._func: "none" (default) or "step"
    constraint,              \* Model._constraint: "none" or "nonneg"
    grid_param,              \* Engine.grid_param rows
    grid_param_type,         \* container of grid_param: "DataFrame" | "ndarray"
    log_lik,                 \* Engine.log_lik [design][param][response]
    ent_obs,                 \* Engine.ent_obs [design][param]
    log_prior,               \* Engine.log_prior
    log_post,                \* Engine.log_post
    marg_log_lik,            \* Engine.marg_log_lik [design][response]
    ent_marg,                \* Engine.ent_marg  (<<>> is None)
    ent_cond,                \* Engine.ent_cond  (<<>> is None)
    mutual_info,             \* Engine.mutual_info (<<>> is None)
    dg_memory,               \* Engine.dg_memory
    dg_grid_params,          \* Engine.dg_grid_params
    dg_means,                \* Engine.dg_means
    dg_covs,                 \* Engine.dg_covs
    dg_priors,               \* Engine.dg_priors
    dg_posts,                \* Engine.dg_posts
    flag_update_mutual_info, \* Engine.flag_update_mutual_info
    ret,                     \* outcome of the last public call
    stored,                  \* history: arguments of the update(store=True) calls
    n_regrid,                \* history: update_grid calls that replaced the grid
    n_update                 \* history: number of public update calls

engine == <<grid_param, grid_param_type, log_lik, ent_obs, log_prior, log_post,
            marg_log_lik, ent_marg, ent_cond, mutual_info, dg_memory,
            dg_grid_params, dg_means, dg_covs, dg_priors, dg_posts,
            flag_update_mutual_info>>

vars == <<func, constraint, grid_param, grid_param_type, log_lik, ent_obs,
          log_prior, log_post, marg_log_lik, ent_marg, ent_cond, mutual_info,
          dg_memory, dg_grid_params, dg_means, dg_covs, dg_priors, dg_posts,
          flag_update_mutual_info, ret, stored, n_regrid, n_update>>

\* Number of public update calls explored in one run.
MaxUpdates == 2

-----------------------------------------------------------------------------
(* Exact rational arithmetic.                                              *)

RECURSIVE GCD(_, _)
GCD(a, b) == IF b = 0 THEN a ELSE GCD(b, a % b)

Abs(x) == IF x < 0 THEN -x ELSE x

Rat(n, d) ==
    LET g == GCD(Abs(n), Abs(d))
        s == IF d < 0 THEN -1 ELSE 1
    IN  IF n = 0 THEN <<0, 1>> ELSE <<(s * n) \div g, (s * d) \div g>>

RAdd(x, y) == Rat(x[1] * y[2] + y[1] * x[2], x[2] * y[2])
RSub(x, y) == Rat(x[1] * y[2] - y[1] * x[2], x[2] * y[2])
RMul(x, y) == Rat(x[1] * y[1], x[2] * y[2])
RDiv(x, y) == Rat(x[1] * y[2], x[2] * y[1])

RECURSIVE RSum(_)
RSum(s) == IF s = <<>> THEN <<0, 1>> ELSE RAdd(Head(s), RSum(Tail(s)))

RECURSIVE ISum(_)
ISum(s) == IF s = <<>> THEN 0 ELSE Head(s) + ISum(Tail(s))

-----------------------------------------------------------------------------
(* Task, design grid, response grid.                                       *)

task_designs == <<"x">>
task_responses == <<0, 1>>
grid_design == <<1, 2>>
grid_response == task_responses

Row(x) == [a |-> <<x, 1>>, c |-> 0, v |-> <<0, 1>>]

make_grid_matrix(axis) == [i \in 1..Len(axis) |-> Row(axis[i])]

\* row >= x  for a row a + c*sqrt(v) and an integer x
RowGE(row, x) ==
    LET t  == RSub(<<x, 1>>, row.a)
        c2 == row.c * row.c * row.v[1] * t[2] * t[2]
        t2 == t[1] * t[1] * row.v[2]
    IN  IF row.c = 0 THEN t[1] <= 0
        ELSE IF row.c > 0 THEN (t[1] <= 0 \/ c2 >= t2)
        ELSE (t[1] <= 0 /\ c2 <= t2)

-----------------------------------------------------------------------------
(* Model: probability function and likelihood tensor.                      *)

\* The probability function handed to the Model when func = "step".
StepFunc(x, row) == IF RowGE(row, x) THEN <<3, 4>> ELSE <<1, 4>>

\* Model.compute: the given function, or 1/2 everywhere when there is none.
compute(f, x, row) == IF f = "step" THEN StepFunc(x, row) ELSE <<1, 2>>

\* Engine._compute_p_obs: p_obs[design][param]
compute_p_obs(f, grid) ==
    [i \in 1..Len(grid_design) |->
        [j \in 1..Len(grid) |-> compute(f, grid_design[i], grid[j])]]

\* exp of  y*log(p) + (1 - y)*log(1 - p)
log_lik_bernoulli(y, p) == IF y = 1 THEN p ELSE RSub(<<1, 1>>, p)

\* Engine._compute_log_lik: log_lik[design][param][response], each entry the
\* rational whose logarithm the tensor holds
compute_log_lik(p_obs) ==
    [i \in 1..Len(p_obs) |->
        [j \in 1..Len(p_obs[i]) |->
            [r \in 1..Len(task_responses) |->
                log_lik_bernoulli(task_responses[r], p_obs[i][j])]]]

\* -x*ln(x) in units of 1/10000 at x = 0, 1/8, 2/8, ..., 3
XLogXKnots ==
    <<0, 2599, 3466, 3678, 3466, 2938, 2158, 1168, 0, -1325, -2789, -4379,
      -6082, -7890, -9793, -11786, -13863, -16018, -18246, -20544, -22907,
      -25333, -27819, -30362, -32958>>

\* -x*ln(x) for the rational x, linear between the knots
NegXLogX(x) ==
    LET k == (8 * x[1]) \div x[2]
        r == (8 * x[1]) % x[2]
    IN  IF k + 2 > Len(XLogXKnots) THEN XLogXKnots[Len(XLogXKnots)]
        ELSE XLogXKnots[k + 1]
             + ((XLogXKnots[k + 2] - XLogXKnots[k + 1]) * r) \div x[2]

\* ent_obs = -sum_r exp(ll) * ll
compute_ent_obs(ll) ==
    [i \in 1..Len(ll) |->
        [j \in 1..Len(ll[i]) |->
            ISum([r \in 1..Len(ll[i][j]) |-> NegXLogX(ll[i][j][r])])]]

-----------------------------------------------------------------------------
(* Log-domain vectors.                                                     *)

LogOf(q) == [e |-> 0, q |-> q]

\* np.exp: the linear number exp(delta)^x * r
Exp(lv) == [x |-> lv.e, r |-> lv.q]

\* logsumexp of a vector whose entries carry the same multiple of delta
logsumexp(vec) ==
    [e |-> IF Len(vec) = 0 THEN 0 ELSE vec[1].e,
     q |-> RSum([j \in 1..Len(vec) |-> vec[j].q])]

LogSub(lv, s) == [e |-> lv.e - s.e, q |-> RDiv(lv.q, s.q)]

\* lp = ones(n); lp - logsumexp(lp).  Every entry of lp is the same number, so
\* its value cancels; the entries are written ln(1).
UniformLog(n) ==
    LET lp == [j \in 1..n |-> LogOf(<<1, 1>>)]
    IN  [j \in 1..n |-> LogSub(lp[j], logsumexp(lp))]

\* logsumexp(vec) = 0, i.e. the exponentiated entries sum to one.  An entry
\* e = 1, q >= 1 has exp >= exp(delta) > 1, so only e = 0 vectors qualify.
IsNormalized(vec) ==
    /\ \A j \in 1..Len(vec) : vec[j].e = 0
    /\ RSum([j \in 1..Len(vec) |-> vec[j].q]) = <<1, 1>>

-----------------------------------------------------------------------------
(* The engine as a record, and its methods as operators on that record.    *)

Cur ==
    [grid_param |-> grid_param, grid_param_type |-> grid_param_type,
     log_lik |-> log_lik, ent_obs |-> ent_obs,
     log_prior |-> log_prior, log_post |-> log_post,
     marg_log_lik |-> marg_log_lik, ent_marg |-> ent_marg,
     ent_cond |-> ent_cond, mutual_info |-> mutual_info,
     dg_memory |-> dg_memory, dg_grid_params |-> dg_grid_params,
     dg_means |-> dg_means, dg_covs |-> dg_covs,
     dg_priors |-> dg_priors, dg_posts |-> dg_posts,
     flag |-> flag_update_mutual_info,
     raised |-> "none", aborted |-> FALSE, regridded |-> FALSE,
     recomputed |-> FALSE, value |-> 0]

\* numpy broadcasting of a length-1 axis
At(vec, j) == IF Len(vec) = 1 THEN vec[1] ELSE vec[j]
Broadcast(n, m) == IF n = 1 THEN m ELSE n
Broadcastable(n, m) == n = m \/ n = 1 \/ m = 1

\* pd.Series(design, index=self.task.designs) accepts the vector
Resolvable(design) == Len(design) = Len(task_designs)

Dist(x, y) == Abs(x - y)

\* index of the grid row nearest to x, the first one on ties
get_nearest_grid_index(x, grid) ==
    CHOOSE i \in 1..Len(grid) :
        /\ \A k \in 1..Len(grid) : Dist(grid[i], x) <= Dist(grid[k], x)
        /\ \A k \in 1..(i - 1) : Dist(grid[k], x) > Dist(grid[i], x)

\* update() records the observation when store is set
Store(memory, design, response, store) ==
    IF store THEN Append(memory, <<design, response>>) ELSE memory

\* Engine.update
update(s, design, response, store) ==
    LET mem == Store(s.dg_memory, design, response, store)
        s1  == [s EXCEPT !.dg_memory = mem]
    IN  IF ~Resolvable(design) THEN [s1 EXCEPT !.raised = "ValueError"]
        ELSE
        LET idx_design   == get_nearest_grid_index(design[1], grid_design)
            idx_response == get_nearest_grid_index(response, grid_response)
            slice == [j \in 1..Len(s.log_lik[idx_design]) |->
                         s.log_lik[idx_design][j][idx_response]]
            n     == Len(s.log_post)
        IN  \* log_post += slice  (in place: the slice must broadcast to n)
            IF ~(Len(slice) = n \/ Len(slice) = 1)
            THEN [s1 EXCEPT !.raised = "ValueError"]
            ELSE
            LET added == [j \in 1..n |->
                             [e |-> s.log_post[j].e,
                              q |-> RMul(s.log_post[j].q, At(slice, j))]]
                z     == logsumexp(added)
            IN  [s1 EXCEPT !.log_post = [j \in 1..n |-> LogSub(added[j], z)],
                           !.flag = TRUE]

\* a guard that never returns early
NeedUpdateAlways(flag) == TRUE

\* "if not self.flag_update_mutual_info: return"
NeedUpdate(flag) == flag

\* logsumexp(log_lik + lp, axis=1), shape (num_design, num_response)
MargLogLik(ll, lp) ==
    LET w == Broadcast(Len(ll[1]), Len(lp))
    IN  [i \in 1..Len(ll) |->
           [r \in 1..Len(task_responses) |->
               logsumexp([j \in 1..w |->
                   [e |-> At(lp, j).e,
                    q |-> RMul(At(ll[i], j)[r], At(lp, j).q)]])]]

\* The entropies and the mutual information of lines 401-413, per design row.
\* An entry [e, c, g] denotes exp(delta)^e * (g - c*delta).
Scores(ll, eo, lp) ==
    LET w   == Broadcast(Len(ll[1]), Len(lp))
        mll == MargLogLik(ll, lp)
        \* -sum_r exp(mll)*mll
        em  == [i \in 1..Len(ll) |->
                  [e |-> mll[i][1].e,
                   c |-> IF mll[i][1].e = 0 THEN <<0, 1>>
                         ELSE RSum([r \in 1..Len(mll[i]) |-> mll[i][r].q]),
                   g |-> ISum([r \in 1..Len(mll[i]) |->
                                  NegXLogX(mll[i][r].q)])]]
        \* sum_j post[j]*ent_obs[i][j]
        ec  == [i \in 1..Len(ll) |->
                  [e |-> At(lp, 1).e,
                   c |-> <<0, 1>>,
                   g |-> ISum([j \in 1..w |->
                            (Exp(At(lp, j)).r[1] * At(eo[i], j))
                            \div Exp(At(lp, j)).r[2]])]]
    IN  [marg_log_lik |-> mll, ent_marg |-> em, ent_cond |-> ec,
         mutual_info |-> [i \in 1..Len(ll) |->
                            [e |-> em[i].e, c |-> RSub(em[i].c, ec[i].c),
                             g |-> em[i].g - ec[i].g]]]

\* Engine._update_mutual_info
update_mutual_info(s) ==
    IF ~NeedUpdate(s.flag) THEN s
    ELSE IF ~Broadcastable(Len(s.log_lik[1]), Len(s.log_post))
    THEN [s EXCEPT !.raised = "ValueError"]
    ELSE
    LET sc == Scores(s.log_lik, s.ent_obs, s.log_post)
    IN  [s EXCEPT !.marg_log_lik = sc.marg_log_lik,
                  !.ent_marg = sc.ent_marg, !.ent_cond = sc.ent_cond,
                  !.mutual_info = sc.mutual_info,
                  !.flag = FALSE, !.recomputed = TRUE]

\* np.argmax: the first index of the largest score.  The scores of one
\* computation share e and c, so they are ordered by g.
argmax(mi) ==
    CHOOSE i \in 1..Len(mi) :
        /\ \A k \in 1..Len(mi) : mi[k].g <= mi[i].g
        /\ \A k \in 1..(i - 1) : mi[k].g < mi[i].g

DesignKinds == {"optimal", "random", "worst"}

\* Engine.get_design; rnd is the index get_random_design_index draws
get_design(s, kind, rnd) ==
    IF kind \notin {"optimal", "random"}
    THEN [s EXCEPT !.raised = "AssertionError"]
    ELSE IF kind = "optimal"
    THEN LET s1 == update_mutual_info(s)
         IN  IF s1.raised # "none" THEN s1
             ELSE [s1 EXCEPT !.value = grid_design[argmax(s1.mutual_info)]]
    ELSE [s EXCEPT !.value = grid_design[rnd]]

-----------------------------------------------------------------------------
(* Dynamic gridding.                                                       *)

\* A number of the grid argument: the integer k, or the quantile Phi(k) of
\* the standard normal distribution (0 < Phi(k) < 1).
Num(k) == [t |-> "num", k |-> k]
Phi(k) == [t |-> "Phi", k |-> k]

\* 0 <= v <= 1
IsQuantile(v) == v.t = "Phi" \/ (0 <= v.k /\ v.k <= 1)

\* Engine.post_mean: np.dot(self.post, self.grid_param)
post_mean(s) ==
    RSum([j \in 1..Len(s.grid_param) |->
             RMul(Exp(s.log_post[j]).r, s.grid_param[j].a)])

\* Engine.post_cov: d = grid - mean; dot(d.T, d * post)
post_cov(s) ==
    LET m == post_mean(s)
    IN  RSum([j \in 1..Len(s.grid_param) |->
                LET d == RSub(s.grid_param[j].a, m)
                IN  RMul(Exp(s.log_post[j]).r, RMul(d, d))])

\* Engine._get_rotation_matrix, as the multiple of sqrt(cov) it returns.  For
\* one parameter cov is 1x1: its eigenvalue and singular value are cov, the
\* eigenvector and singular vector are 1, and post_sd is sqrt(cov).
get_rotation_matrix(rotation) ==
    IF rotation = "eig" THEN 1
    ELSE IF rotation = "svd" THEN 1
    ELSE 1

\* Engine._get_grid_axes, for a grid that passed the quantile check:
\* norm.ppf(Phi(k)) = k for "q", the values themselves for "z"
get_grid_axes(grid, grid_type) == [i \in 1..Len(grid) |-> grid[i].k]

\* A row m + c*sqrt(cov)
NewRow(m, c, cov) ==
    [a |-> m, c |-> c, v |-> IF c = 0 THEN <<0, 1>> ELSE cov]

\* Model.constraint on the parameter
Feasible(cons, row) == cons = "none" \/ RowGE(row, 0)

\* Engine._initialize
initialize(s, f) ==
    LET ll == compute_log_lik(compute_p_obs(f, s.grid_param))
    IN  [s EXCEPT !.log_lik = ll, !.ent_obs = compute_ent_obs(ll),
                  !.log_prior = UniformLog(Len(s.grid_param)),
                  !.log_post = UniformLog(Len(s.grid_param))]

\* a replay that records the replayed observations again
ReplayStoreAgain == TRUE

\* the store argument of the replayed update calls
ReplayStore == FALSE

\* "for d, y in self.dg_memory: self.update(d, y, False)"
RECURSIVE Replay(_, _, _)
Replay(s, memory, i) ==
    IF i > Len(memory) \/ s.raised # "none" THEN s
    ELSE Replay(update(s, memory[i][1], memory[i][2], ReplayStore),
                memory, i + 1)

\* a regrid that does not record the posterior
RecordPostsSkipped(posts, post) == posts

\* self.dg_posts.append(self.post)
RecordPosts(posts, post) == Append(posts, post)

\* Engine.update_grid
update_grid(s, f, cons, grid, rotation, grid_type, prior, append) ==
    IF rotation \notin {"eig", "svd", "none", "None"}
    THEN [s EXCEPT !.raised = "AssertionError"]
    ELSE IF grid_type \notin {"q", "z"}
    THEN [s EXCEPT !.raised = "AssertionError"]
    ELSE IF prior \notin {"recalc", "normal", "None"}
    THEN [s EXCEPT !.raised = "AssertionError"]
    \* m = self.post_mean: the dot product needs one weight per row
    ELSE IF Len(s.log_post) # Len(s.grid_param)
    THEN [s EXCEPT !.raised = "ValueError"]
    \* cov = self.post_cov reads self.grid_param.values
    ELSE IF s.grid_param_type # "DataFrame"
    THEN [s EXCEPT !.raised = "AttributeError"]
    ELSE
    LET m   == post_mean(s)
        cov == post_cov(s)
    IN  IF cov = <<0, 1>> THEN [s EXCEPT !.aborted = TRUE]
        ELSE IF grid_type = "q" /\ ~(\A i \in 1..Len(grid) : IsQuantile(grid[i]))
        THEN [s EXCEPT !.raised = "AssertionError"]
        ELSE
        LET r_inv    == get_rotation_matrix(rotation)
            g_axes   == get_grid_axes(grid, grid_type)
            g_star   == g_axes
            grid_all == [i \in 1..Len(g_star) |-> NewRow(m, g_star[i] * r_inv, cov)]
            grid_new == SelectSeq(grid_all, LAMBDA row : Feasible(cons, row))
            s1 == [s EXCEPT
                     !.grid_param = IF append THEN s.grid_param \o grid_new
                                    ELSE grid_new,
                     !.grid_param_type = "ndarray",
                     !.dg_means = Append(s.dg_means, m),
                     !.dg_covs = Append(s.dg_covs, cov),
                     !.dg_grid_params = Append(s.dg_grid_params, grid_new),
                     !.dg_priors = Append(s.dg_priors,
                         [j \in 1..Len(s.log_prior) |-> Exp(s.log_prior[j])]),
                     !.dg_posts = RecordPosts(s.dg_posts,
                         [j \in 1..Len(s.log_post) |-> Exp(s.log_post[j])]),
                     !.regridded = TRUE]
            s2 == initialize(s1, f)
            \* mvnm.pdf(grid_new, mean=m, cov=cov): the density delta per row
            mvnm_prior == [j \in 1..Len(grid_new) |-> [e |-> 1, q |-> <<1, 1>>]]
        IN  IF prior = "recalc" THEN Replay(s2, s2.dg_memory, 1)
            ELSE IF prior = "normal"
            THEN LET lp == IF append THEN s2.log_post \o mvnm_prior
                           ELSE mvnm_prior
                 IN  [s2 EXCEPT !.log_prior = lp, !.log_post = lp]
            ELSE s2

-----------------------------------------------------------------------------
(* The state machine: construction, then any sequence of public calls.     *)

\* The call just made and how it ended.  again: it is a get_design('optimal')
\* that follows a get_design('optimal') that returned.
Call(op, kind, valid, s) ==
    [op |-> op, kind |-> kind, valid |-> valid,
     raised |-> s.raised, aborted |-> s.aborted,
     regridded |-> s.regridded, recomputed |-> s.recomputed,
     value |-> s.value,
     again |-> (op = "get_design" /\ kind = "optimal"
                /\ ret.op = "get_design" /\ ret.kind = "optimal"
                /\ ret.raised = "none")]

Set(s) ==
    /\ grid_param' = s.grid_param
    /\ grid_param_type' = s.grid_param_type
    /\ log_lik' = s.log_lik
    /\ ent_obs' = s.ent_obs
    /\ log_prior' = s.log_prior
    /\ log_post' = s.log_post
    /\ marg_log_lik' = s.marg_log_lik
    /\ ent_marg' = s.ent_marg
    /\ ent_cond' = s.ent_cond
    /\ mutual_info' = s.mutual_info
    /\ dg_memory' = s.dg_memory
    /\ dg_grid_params' = s.dg_grid_params
    /\ dg_means' = s.dg_means
    /\ dg_covs' = s.dg_covs
    /\ dg_priors' = s.dg_priors
    /\ dg_posts' = s.dg_posts
    /\ flag_update_mutual_info' = s.flag

\* Engines constructed: parameter axis, probability function, constraint.
Configs ==
    {<<<<0>>, "none", "none">>,
     <<<<0, 1, 2>>, "step", "nonneg">>}

\* Engine.__init__
Init ==
    \E cfg \in Configs :
        LET grid == make_grid_matrix(cfg[1])
            ll   == compute_log_lik(compute_p_obs(cfg[2], grid))
        IN  /\ func = cfg[2]
            /\ constraint = cfg[3]
            /\ grid_param = grid
            /\ grid_param_type = "DataFrame"
            /\ log_lik = ll
            /\ ent_obs = compute_ent_obs(ll)
            /\ log_prior = UniformLog(Len(grid))
            /\ log_post = UniformLog(Len(grid))
            /\ marg_log_lik = MargLogLik(ll, UniformLog(Len(grid)))
            /\ ent_marg = <<>>
            /\ ent_cond = <<>>
            /\ mutual_info = <<>>
            /\ dg_memory = <<>>
            /\ dg_grid_params = <<>>
            /\ dg_means = <<>>
            /\ dg_covs = <<>>
            /\ dg_priors = <<>>
            /\ dg_posts = <<>>
            /\ flag_update_mutual_info = TRUE
            /\ ret = [op |-> "init", kind |-> "-", valid |-> TRUE,
                      raised |-> "none",
                      aborted |-> FALSE, regridded |-> FALSE,
                      recomputed |-> FALSE, value |-> 0, again |-> FALSE]
            /\ stored = <<>>
            /\ n_regrid = 0
            /\ n_update = 0

\* Calls of update: a design on the grid, one off the grid (its nearest row
\* is x = 2), and a vector with two entries for the single design variable.
UpdateArgs ==
    {<<<<1>>, 0, TRUE>>, <<<<3>>, 1, TRUE>>, <<<<3>>, 1, FALSE>>,
     <<<<1, 2>>, 1, TRUE>>}

Update ==
    /\ n_update < MaxUpdates
    /\ \E a \in UpdateArgs :
          LET s == update(Cur, a[1], a[2], a[3])
          IN  /\ Set(s)
              /\ ret' = Call("update", IF a[3] THEN "store" ELSE "-",
                             Resolvable(a[1]), s)
              /\ stored' = IF a[3] THEN Append(stored, <<a[1], a[2]>>)
                           ELSE stored
              /\ n_update' = n_update + 1
              /\ UNCHANGED <<func, constraint, n_regrid>>

GetDesign ==
    \E kind \in DesignKinds, rnd \in 1..Len(grid_design) :
        LET s == get_design(Cur, kind, rnd)
        IN  /\ Set(s)
            /\ ret' = Call("get_design", kind,
                           kind \in {"optimal", "random"}, s)
            /\ UNCHANGED <<func, constraint, stored, n_regrid, n_update>>

\* Calls of update_grid <<grid, rotation, grid_type, prior, append>>: every
\* prior strategy with and without append, every rotation, both grid types,
\* a one-point grid, and one call for each way an argument can be refused.
UpdateGridArgs ==
    {<<g, "eig", "z", p, ap>> :
        g \in {<<Num(-1), Num(1)>>}, p \in {"recalc", "normal", "None"},
        ap \in BOOLEAN}
    \cup {<<<<Num(-1), Num(1)>>, r, "z", "None", FALSE>> :
            r \in {"svd", "none", "None"}}
    \cup {<<<<Num(0)>>, "eig", "z", "None", FALSE>>,
          <<<<Phi(-1), Phi(1)>>, "eig", "q", "None", FALSE>>,
          <<<<Num(-1), Num(1)>>, "eig", "q", "None", FALSE>>,
          <<<<Num(-1), Num(1)>>, "qr", "z", "None", FALSE>>,
          <<<<Num(-1), Num(1)>>, "eig", "x", "None", FALSE>>,
          <<<<Num(-1), Num(1)>>, "eig", "z", "flat", FALSE>>}

UpdateGrid ==
    \E a \in UpdateGridArgs :
        LET s == update_grid(Cur, func, constraint, a[1], a[2], a[3], a[4],
                             a[5])
        IN  /\ Set(s)
            /\ ret' = Call("update_grid", IF s.regridded THEN a[4] ELSE "-",
                           /\ a[2] \in {"eig", "svd", "none", "None"}
                           /\ a[3] \in {"q", "z"}
                           /\ a[4] \in {"recalc", "normal", "None"}, s)
            /\ n_regrid' = IF s.regridded THEN n_regrid + 1 ELSE n_regrid
            /\ UNCHANGED <<func, constraint, stored, n_update>>

Next == Update \/ GetDesign \/ UpdateGrid

Spec == Init /\ [][Next]_vars

-----------------------------------------------------------------------------
(* Properties.                                                             *)

\* The posterior covariance is singular: the vector is a distribution over the
\* rows and every row that carries mass is the same point.  (Rows are kept in
\* normal form, and every likelihood is positive, so every row carries mass.)
CovSingular ==
    /\ Len(log_post) = Len(grid_param)
    /\ IsNormalized(log_post)
    /\ \A j, k \in 1..Len(grid_param) : grid_param[j] = grid_param[k]

\* The vectors the engine normalises are of one kind: a vector that mixes
\* ln(q) entries with density entries has more entries than the grid has rows,
\* and is refused by the shape check before logsumexp is applied to it.
LogVectorsHomogeneous ==
    (\E j, k \in 1..Len(log_post) : log_post[j].e # log_post[k].e)
        => Len(log_post) # Len(grid_param)

\* C1: in every reachable state logsumexp(log_post) = 0.
C1_PosteriorNormalized == IsNormalized(log_post)

\* C2: every update that changes the posterior and every update_grid that
\* rebuilds the grid sets flag_update_mutual_info; only a recomputation in
\* _update_mutual_info clears it.
C2_DirtyFlag ==
    [][/\ (ret'.op = "update" /\ ret'.raised = "none")
            => flag_update_mutual_info'
       /\ (ret'.op = "update_grid" /\ ret'.regridded /\ ret'.raised = "none")
            => flag_update_mutual_info'
       /\ (flag_update_mutual_info /\ ~flag_update_mutual_info')
            => (ret'.op = "get_design" /\ ret'.recomputed)]_vars

\* C3: get_design('optimal') returns the design row at the first arg-max of the
\* mutual information of the posterior and likelihood tensor current at the
\* call.
C3_OptimalIsCurrent ==
    [][(ret'.op = "get_design" /\ ret'.kind = "optimal"
            /\ ret'.raised = "none")
        => /\ Broadcastable(Len(log_lik'[1]), Len(log_post'))
           /\ ret'.value =
                grid_design[argmax(Scores(log_lik', ent_obs',
                                          log_post').mutual_info)]]_vars

\* C4: update_grid with valid rotation, grid_type and prior in a state with a
\* singular posterior covariance returns normally and changes nothing.
C4_SingularIsNoOp ==
    [][(CovSingular /\ ret'.op = "update_grid" /\ ret'.valid)
        => (ret'.raised = "none" /\ UNCHANGED engine)]_vars

\* C5: a call that raises leaves the engine as it was before the call.
C5_AllOrNothing ==
    [][ret'.raised # "none" => UNCHANGED engine]_vars

\* C6: log_prior and log_post have one entry per row of grid_param.
C6_VectorLengths ==
    /\ Len(log_prior) = Len(grid_param)
    /\ Len(log_post) = Len(grid_param)

\* C7: dg_memory is exactly the sequence of (design, response) arguments of
\* the update calls made with store=True, in call order.
C7_MemoryIsStoredCalls == dg_memory = stored

C7_Witness ==
    /\ ret.op = "update_grid" /\ ret.kind = "recalc" /\ ret.regridded
    /\ ret.raised = "none"
    /\ Len(dg_memory) = 2
    /\ dg_memory[1] # dg_memory[2]

\* C8: the five history lists grow by exactly one snapshot in every
\* update_grid that replaces the grid (mean, covariance, prior and posterior
\* as they were before the call, and the newly generated grid), are left alone
\* by every other call, and have the length n_regrid.
C8_HistoryAppendOnly ==
    [][/\ Len(dg_means') = n_regrid'
       /\ Len(dg_covs') = n_regrid'
       /\ Len(dg_grid_params') = n_regrid'
       /\ Len(dg_priors') = n_regrid'
       /\ Len(dg_posts') = n_regrid'
       /\ IF ret'.op = "update_grid" /\ ret'.regridded
          THEN /\ dg_means' = Append(dg_means, post_mean(Cur))
               /\ dg_covs' = Append(dg_covs, post_cov(Cur))
               /\ dg_priors' = Append(dg_priors,
                     [j \in 1..Len(log_prior) |-> Exp(log_prior[j])])
               /\ dg_posts' = Append(dg_posts,
                     [j \in 1..Len(log_post) |-> Exp(log_post[j])])
               /\ SubSeq(dg_grid_params', 1, n_regrid) = dg_grid_params
               /\ grid_param' \in
                     {dg_grid_params'[n_regrid'],
                      grid_param \o dg_grid_params'[n_regrid']}
          ELSE UNCHANGED <<dg_means, dg_covs, dg_grid_params, dg_priors,
                           dg_posts>>]_vars

C8_Witness ==
    /\ n_regrid = 1
    /\ Len(dg_posts) = 1
    /\ Len(dg_posts[1]) = 3
    /\ ret.op = "update" /\ ret.raised = "none"

\* C9: a get_design('optimal') that directly follows a get_design('optimal')
\* that returned returns the same design, recomputes nothing and leaves the
\* entropies, the mutual information and the flag as they were.
C9_OptimalIdempotent ==
    [][ret'.again
        => /\ ret'.raised = "none"
           /\ ret'.value = ret.value
           /\ ~ret'.recomputed
           /\ UNCHANGED <<marg_log_lik, ent_marg, ent_cond, mutual_info,
                          flag_update_mutual_info>>]_vars

C9_Witness ==
    /\ ret.again /\ ret.raised = "none"
    /\ ret.value = 2

\* One Bayesian update step: add the slice of the nearest design and response,
\* renormalise.
BayesStep(lp, ll, design, response) ==
    LET i == get_nearest_grid_index(design[1], grid_design)
        r == get_nearest_grid_index(response, grid_response)
        w == [j \in 1..Len(lp) |-> RMul(lp[j].q, ll[i][j][r])]
    IN  [j \in 1..Len(lp) |-> LogOf(RDiv(w[j], RSum(w)))]

RECURSIVE Recalculated(_, _, _)
Recalculated(lp, ll, memory) ==
    IF memory = <<>> THEN lp
    ELSE Recalculated(BayesStep(lp, ll, Head(memory)[1], Head(memory)[2]),
                      ll, Tail(memory))

\* C10: after an update_grid with prior 'recalc' that replaced the grid,
\* log_prior is uniform over the new grid and log_post is the uniform vector
\* updated with every pair of dg_memory in order.
C10_RecalcReplaysLog ==
    [][(ret'.op = "update_grid" /\ ret'.kind = "recalc" /\ ret'.regridded)
        => /\ ret'.raised = "none"
           /\ log_prior' = UniformLog(Len(grid_param'))
           /\ log_post' = Recalculated(UniformLog(Len(grid_param')),
                                       log_lik', dg_memory')]_vars

\* The replay of C10 for the update_grid calls that return.
RecalcReplaysLogWhenItReturns ==
    [][(ret'.op = "update_grid" /\ ret'.kind = "recalc" /\ ret'.regridded
            /\ ret'.raised = "none")
        => /\ log_prior' = UniformLog(Len(grid_param'))
           /\ log_post' = Recalculated(UniformLog(Len(grid_param')),
                                       log_lik', dg_memory')]_vars

====
